---------------------------- MODULE Spec2Model ----------------------------
(***************************************************************************)
(* A model of convert.js, the Allure TestOps -> Testomat.io CSV converter. *)
(*                                                                         *)
(* JavaScript strings are modelled as sequences of characters, each        *)
(* character a one-character TLA+ string.  The three non-ASCII characters  *)
(* the program names are written by their code points: "U+1F534",          *)
(* "U+1F7E1", "U+1F7E2" (the priority emoji), "U+227A" and "U+227B" (the   *)
(* replacements for < and >).  The JavaScript value undefined is the       *)
(* sequence Undefined, which no string equals.                             *)
(*                                                                         *)
(* A record (one parsed CSV row, a JavaScript object) is a sequence of     *)
(* <<key, value>> pairs in insertion order, with no key repeated.          *)
(***************************************************************************)
EXTENDS Integers, Sequences, FiniteSets, TLC

VARIABLES
    pc,              \* position of the operation under way
    record,          \* the input record of the extractor under check
    result,          \* the value the extractor returned
    scenario,        \* parseScenario: the scenario text
    lines,           \* parseScenario: scenario.split('\n')
    lineNo,          \* parseScenario: number of lines consumed by the loop
    currentStep,     \* parseScenario: the accumulator (Undefined for null)
    steps,           \* parseScenario: the steps array
    inputFile,       \* process.argv[2] (Undefined when not given)
    records,         \* convertTestCases: what csv.parse returns
    recNo,           \* convertTestCases: number of records forEach has visited
    transformedData, \* convertTestCases: the transformedData array
    outputWrites,    \* the contents of each fs.writeFileSync that happened
    exitCode,        \* process.exit code (-1 while none was requested)
    thrownAt,        \* the step whose exception the top-level catch took ("" for none)
    labels,          \* extractLabels: the labels array
    entryNo          \* extractLabels: number of entries of the record visited

vars == <<pc, record, result, scenario, lines, lineNo, currentStep, steps,
          inputFile, records, recNo, transformedData, outputWrites, exitCode,
          thrownAt, labels, entryNo>>

-----------------------------------------------------------------------------
(* JavaScript values and String.prototype methods *)

Undefined == <<"undefined">>

\* JavaScript truthiness of a string or undefined
Truthy(v) == v # Undefined /\ v # <<>>

\* the characters \s matches and String.prototype.trim strips
WhiteSpace == {" ", "\t", "\n", "\r"}

\* the number of leading characters of s that are in class
LeadingIn(s, class) ==
    IF \A i \in 1..Len(s) : s[i] \in class THEN Len(s)
    ELSE (CHOOSE i \in 1..Len(s) : s[i] \notin class /\ \A k \in 1..(i - 1) : s[k] \in class) - 1

\* the number of trailing characters of s that are in class
TrailingIn(s, class) ==
    IF \A i \in 1..Len(s) : s[i] \in class THEN Len(s)
    ELSE Len(s) - (CHOOSE i \in 1..Len(s) :
                       s[i] \notin class /\ \A k \in (i + 1)..Len(s) : s[k] \in class)

\* s.replace(/^\s+/, '')
TrimStart(s) == SubSeq(s, LeadingIn(s, WhiteSpace) + 1, Len(s))

TrimEnd(s) == SubSeq(s, 1, Len(s) - TrailingIn(s, WhiteSpace))

\* String.prototype.trim
Trim(s) == TrimEnd(TrimStart(s))

\* String.prototype.startsWith
StartsWith(s, p) == Len(s) >= Len(p) /\ SubSeq(s, 1, Len(p)) = p

\* String.prototype.includes for a one-character needle
Includes(s, c) == \E i \in 1..Len(s) : s[i] = c

\* Array.prototype.includes
ArrayIncludes(a, v) == \E i \in 1..Len(a) : a[i] = v

\* s.slice(i - 1): the suffix of s that starts at position i (1-based)
From(s, i) == SubSeq(s, i, Len(s))

\* the position of the first occurrence of c in s at or after i, 0 when none
IndexFrom(s, c, i) ==
    IF \E j \in i..Len(s) : s[j] = c
    THEN CHOOSE j \in i..Len(s) : s[j] = c /\ \A k \in i..(j - 1) : s[k] # c
    ELSE 0

\* String.prototype.split for a one-character separator
RECURSIVE Split(_, _)
Split(s, c) ==
    IF IndexFrom(s, c, 1) = 0 THEN <<s>>
    ELSE <<SubSeq(s, 1, IndexFrom(s, c, 1) - 1)>> \o Split(From(s, IndexFrom(s, c, 1) + 1), c)

\* Array.prototype.join
RECURSIVE Join(_, _)
Join(a, sep) ==
    IF a = <<>> THEN <<>>
    ELSE IF Len(a) = 1 THEN a[1]
    ELSE a[1] \o sep \o Join(Tail(a), sep)

\* s.replace(/c/g, to) for a one-character pattern c
ReplaceChar(s, c, to) ==
    [i \in 1..Len(s) |-> IF s[i] = c THEN to ELSE s[i]]

\* s.replace(/\s+/g, '_')
RECURSIVE CollapseWhiteSpace(_)
CollapseWhiteSpace(s) ==
    IF \A i \in 1..Len(s) : s[i] \notin WhiteSpace THEN s
    ELSE LET first == CHOOSE i \in 1..Len(s) :
                          s[i] \in WhiteSpace /\ \A k \in 1..(i - 1) : s[k] \notin WhiteSpace
         IN  SubSeq(s, 1, first - 1) \o <<"_">> \o CollapseWhiteSpace(TrimStart(From(s, first)))

UpperCase == {"A", "B", "C", "D", "E", "F", "G", "H", "I", "J", "K", "L", "M",
              "N", "O", "P", "Q", "R", "S", "T", "U", "V", "W", "X", "Y", "Z"}

Digits == {"0", "1", "2", "3", "4", "5", "6", "7", "8", "9"}

LowerOf == [c \in UpperCase |->
    CASE c = "A" -> "a" [] c = "B" -> "b" [] c = "C" -> "c" [] c = "D" -> "d"
      [] c = "E" -> "e" [] c = "F" -> "f" [] c = "G" -> "g" [] c = "H" -> "h"
      [] c = "I" -> "i" [] c = "J" -> "j" [] c = "K" -> "k" [] c = "L" -> "l"
      [] c = "M" -> "m" [] c = "N" -> "n" [] c = "O" -> "o" [] c = "P" -> "p"
      [] c = "Q" -> "q" [] c = "R" -> "r" [] c = "S" -> "s" [] c = "T" -> "t"
      [] c = "U" -> "u" [] c = "V" -> "v" [] c = "W" -> "w" [] c = "X" -> "x"
      [] c = "Y" -> "y" [] c = "Z" -> "z"]

\* String.prototype.toLowerCase
ToLowerCase(s) ==
    [i \in 1..Len(s) |-> IF s[i] \in UpperCase THEN LowerOf[s[i]] ELSE s[i]]

\* record[key]: the value of the property, undefined when the record has none
RECURSIVE Get(_, _)
Get(rec, key) ==
    IF rec = <<>> THEN Undefined
    ELSE IF rec[1][1] = key THEN rec[1][2]
    ELSE Get(Tail(rec), key)

\* Object.keys(record)
Keys(rec) == [i \in 1..Len(rec) |-> rec[i][1]]

\* record[field] && record[field].trim()
NonBlank(rec, field) == Truthy(Get(rec, field)) /\ Trim(Get(rec, field)) # <<>>

-----------------------------------------------------------------------------
(* cleanHtml, lines 387-396 *)

\* the number of leading characters of s that \s matches
LeadingWhiteSpace(s) == LeadingIn(s, WhiteSpace)

\* the length of the match of /<br\s*\/?>/i at the start of s, 0 when none
BrMatchLen(s) ==
    IF Len(s) >= 4 /\ s[1] = "<" /\ s[2] \in {"b", "B"} /\ s[3] \in {"r", "R"}
    THEN LET j == 4 + LeadingWhiteSpace(From(s, 4))
             k == IF j <= Len(s) /\ s[j] = "/" THEN j + 1 ELSE j
         IN  IF k <= Len(s) /\ s[k] = ">" THEN k ELSE 0
    ELSE 0

\* .replace(/<br\s*\/?>/gi, '\n'): the leftmost match, then the rest
RECURSIVE ReplaceBr(_)
ReplaceBr(s) ==
    IF \A i \in 1..Len(s) : BrMatchLen(From(s, i)) = 0 THEN s
    ELSE LET first == CHOOSE i \in 1..Len(s) :
                          /\ BrMatchLen(From(s, i)) > 0
                          /\ \A k \in 1..(i - 1) : BrMatchLen(From(s, k)) = 0
         IN  SubSeq(s, 1, first - 1) \o <<"\n">>
                 \o ReplaceBr(From(s, first + BrMatchLen(From(s, first))))

\* the tag names of /<\/?(p|span|div|ul|li)[^>]*>/
StrippedTags == {<<"p">>, <<"s", "p", "a", "n">>, <<"d", "i", "v">>,
                 <<"u", "l">>, <<"l", "i">>}

\* the length of the match of /<\/?(p|span|div|ul|li)[^>]*>/i at the start of s
TagMatchLen(s) ==
    IF s # <<>> /\ s[1] = "<"
    THEN LET j == IF Len(s) >= 2 /\ s[2] = "/" THEN 3 ELSE 2
             named == \E t \in StrippedTags : StartsWith(ToLowerCase(From(s, j)), t)
         IN  IF named THEN IndexFrom(s, ">", j) ELSE 0
    ELSE 0

\* .replace(/<\/?(p|span|div|ul|li)[^>]*>/gi, ''): the leftmost match, then
\* the rest
RECURSIVE StripTags(_)
StripTags(s) ==
    IF \A i \in 1..Len(s) : TagMatchLen(From(s, i)) = 0 THEN s
    ELSE LET first == CHOOSE i \in 1..Len(s) :
                          /\ TagMatchLen(From(s, i)) > 0
                          /\ \A k \in 1..(i - 1) : TagMatchLen(From(s, k)) = 0
         IN  SubSeq(s, 1, first - 1)
                 \o StripTags(From(s, first + TagMatchLen(From(s, first))))

\* the position of the last "\n" among the first n characters of s, 0 when none
LastNewline(s, n) ==
    IF \A i \in 1..n : s[i] # "\n" THEN 0
    ELSE CHOOSE i \in 1..n : s[i] = "\n" /\ \A k \in (i + 1)..n : s[k] # "\n"

\* .replace(/\n\s*\n/g, '\n'): \s* is greedy, so a match runs to the last
\* newline of the white space that follows its first newline
RECURSIVE CollapseNewlines(_)
CollapseNewlines(s) ==
    IF IndexFrom(s, "\n", 1) = 0 THEN s
    ELSE LET first == IndexFrom(s, "\n", 1)
             rest == From(s, first + 1)
             last == LastNewline(rest, LeadingWhiteSpace(rest))
         IN  SubSeq(s, 1, first) \o CollapseNewlines(From(rest, last + 1))

cleanHtml(text) ==
    IF ~Truthy(text) THEN <<>>
    ELSE Trim(CollapseNewlines(
             ReplaceChar(ReplaceChar(StripTags(ReplaceBr(text)), "<", "U+227A"),
                         ">", "U+227B")))

-----------------------------------------------------------------------------
(* parseScenario, lines 154-206 *)

StepPrefix == <<"[", "s", "t", "e", "p", " ">>

\* the number of leading characters of s that \d matches
LeadingDigits(s) == LeadingIn(s, Digits)

\* the length of the match of /^\[step \d+\]/ on t, 0 when none
StepMatchLen(t) ==
    IF StartsWith(t, StepPrefix)
    THEN LET d == LeadingDigits(From(t, 7))
         IN  IF d > 0 /\ 7 + d <= Len(t) /\ t[7 + d] = "]" THEN 7 + d ELSE 0
    ELSE 0

\* the length of the match of /^\[step \d+\.\d+\]/ on t, 0 when none
ExpectedMatchLen(t) ==
    IF StartsWith(t, StepPrefix)
    THEN LET d == LeadingDigits(From(t, 7))
             e == IF d > 0 /\ 7 + d <= Len(t) /\ t[7 + d] = "."
                  THEN LeadingDigits(From(t, 8 + d)) ELSE 0
         IN  IF e > 0 /\ 8 + d + e <= Len(t) /\ t[8 + d + e] = "]"
             THEN 8 + d + e ELSE 0
    ELSE 0

\* trimmedLine.replace(/^\[step \d+\]\s*/, '')
StepText(t) == TrimStart(From(t, StepMatchLen(t) + 1))

\* trimmedLine.replace(/^\[step \d+\.\d+\]\s*/, '')
ExpectedText(t) == TrimStart(From(t, ExpectedMatchLen(t) + 1))

\* trimmedLine.replace(/^\-\s*/, '') on a line that starts with "-"
SubItemText(t) == TrimStart(Tail(t))

Bullet == <<"*", " ">>
ExpectedMark == <<"\n", " ", " ", "*", "E", "x", "p", "e", "c", "t", "e", "d", ":", "*", " ">>
Indent == <<"\n", " ", " ", " ", " ">>

\* which branch of the if / else-if chain of the loop body takes the line
ScenarioBranch(cur, line) ==
    LET t == Trim(line) IN
    IF StepMatchLen(t) > 0 THEN "step"
    ELSE IF ExpectedMatchLen(t) > 0 THEN "expected"
    ELSE IF t # <<>> /\ ~StartsWith(t, <<"[">>) /\ Truthy(cur) THEN "continuation"
    ELSE IF StartsWith(t, <<"-">>) /\ Truthy(cur) THEN "subitem"
    ELSE IF t # <<>> /\ ~StartsWith(t, <<"[">>) /\ ~StartsWith(t, <<"-">>) /\ ~Truthy(cur)
         THEN "standalone"
    ELSE "none"

\* currentStep after the loop body has run on the line
LineCurrentStep(cur, line) ==
    LET t == Trim(line)
        b == ScenarioBranch(cur, line)
    IN  CASE b = "step" -> Bullet \o cleanHtml(StepText(t))
          [] b = "expected" ->
                IF Truthy(cur) THEN cur \o ExpectedMark \o cleanHtml(ExpectedText(t))
                ELSE cur
          [] b = "continuation" -> cur \o Indent \o cleanHtml(t)
          [] b = "subitem" ->
                IF SubItemText(t) # <<>> THEN cur \o Indent \o cleanHtml(SubItemText(t))
                ELSE cur
          [] b = "standalone" -> Bullet \o cleanHtml(t)
          [] OTHER -> cur

\* the push of the previous step forgotten
LineStepsNoPush(cur, stepsArr, line) == stepsArr

\* steps after the loop body has run on the line
LineSteps(cur, stepsArr, line) ==
    IF ScenarioBranch(cur, line) = "step" /\ Truthy(cur)
    THEN Append(stepsArr, cur)
    ELSE stepsArr

\* the steps array after the loop and the final push
RECURSIVE ScenarioLoop(_, _, _)
ScenarioLoop(ls, cur, stepsArr) ==
    IF ls = <<>>
    THEN (IF Truthy(cur) THEN Append(stepsArr, cur) ELSE stepsArr)
    ELSE ScenarioLoop(Tail(ls), LineCurrentStep(cur, Head(ls)),
                      LineSteps(cur, stepsArr, Head(ls)))

parseScenario(text) == ScenarioLoop(Split(text, "\n"), Undefined, <<>>)

-----------------------------------------------------------------------------
(* the column names and the literals convert.js names *)

k_allure_id == <<"a", "l", "l", "u", "r", "e", "_", "i", "d">>
k_name == <<"n", "a", "m", "e">>
k_scenario == <<"s", "c", "e", "n", "a", "r", "i", "o">>
k_precondition == <<"p", "r", "e", "c", "o", "n", "d", "i", "t", "i", "o", "n">>
k_expected_result ==
    <<"e", "x", "p", "e", "c", "t", "e", "d", "_", "r", "e", "s", "u", "l",
      "t">>
k_tag == <<"t", "a", "g">>
k_Owner == <<"O", "w", "n", "e", "r">>
k_CreatedBy == <<"C", "r", "e", "a", "t", "e", "d", " ", "B", "y">>
k_Priority == <<"P", "r", "i", "o", "r", "i", "t", "y">>
k_link == <<"l", "i", "n", "k">>
k_Suite == <<"S", "u", "i", "t", "e">>
k_automated == <<"a", "u", "t", "o", "m", "a", "t", "e", "d">>
k_Epic == <<"E", "p", "i", "c">>
k_Feature == <<"F", "e", "a", "t", "u", "r", "e">>
k_Story == <<"S", "t", "o", "r", "y">>
k_SubStory == <<"S", "u", "b", "S", "t", "o", "r", "y">>
k_Folder == <<"F", "o", "l", "d", "e", "r">>
k_TestSuite == <<"T", "e", "s", "t", " ", "S", "u", "i", "t", "e">>
k_TestSuitePath == <<"T", "e", "s", "t", " ", "S", "u", "i", "t", "e", " ", "P", "a", "t", "h">>
k_TestType == <<"T", "e", "s", "t", " ", "T", "y", "p", "e">>
k_AutomationType ==
    <<"A", "u", "t", "o", "m", "a", "t", "i", "o", "n", " ", "T", "y", "p",
      "e">>
k_References == <<"R", "e", "f", "e", "r", "e", "n", "c", "e", "s">>
k_description == <<"d", "e", "s", "c", "r", "i", "p", "t", "i", "o", "n">>
k_status == <<"s", "t", "a", "t", "u", "s">>

s_true == <<"t", "r", "u", "e">>
s_manual == <<"m", "a", "n", "u", "a", "l">>
s_high == <<"h", "i", "g", "h">>
s_normal == <<"n", "o", "r", "m", "a", "l">>
s_low == <<"l", "o", "w">>
s_Blocker == <<"B", "l", "o", "c", "k", "e", "r">>
s_Critical == <<"C", "r", "i", "t", "i", "c", "a", "l">>
s_Major == <<"M", "a", "j", "o", "r">>
s_Minor == <<"M", "i", "n", "o", "r">>
s_Trivial == <<"T", "r", "i", "v", "i", "a", "l">>
s_EmojiHigh == <<"U+1F534", " ", "H", "i", "g", "h">>
s_EmojiMedium == <<"U+1F7E1", " ", "M", "e", "d", "i", "u", "m">>
s_EmojiLow == <<"U+1F7E2", " ", "L", "o", "w">>
s_jira == <<"j", "i", "r", "a", "-">>
s_folder == <<"f", "o", "l", "d", "e", "r">>
s_PreconditionsHeading ==
    <<"#", "#", "#", " ", "P", "r", "e", "c", "o", "n", "d", "i", "t", "i",
      "o", "n", "s", "\n", "\n">>
s_StepsHeading == <<"#", "#", "#", " ", "S", "t", "e", "p", "s", "\n", "\n">>
s_ExpectedHeading ==
    <<"#", "#", "#", " ", "E", "x", "p", "e", "c", "t", "e", "d", " ", "R",
      "e", "s", "u", "l", "t", "\n", "\n">>
s_constructor == <<"c", "o", "n", "s", "t", "r", "u", "c", "t", "o", "r">>
s_proto == <<"_", "_", "p", "r", "o", "t", "o", "_", "_">>
-----------------------------------------------------------------------------
(* formatAllureId, mapStatus, mapPriority: lines 125-152 *)

\* idStr.padStart(8, '0')
RECURSIVE PadStart8(_)
PadStart8(s) == IF Len(s) >= 8 THEN s ELSE PadStart8(<<"0">> \o s)

formatAllureId(allureId) == <<"T">> \o PadStart8(allureId)

\* the cells are strings, so only the comparison with 'true' can hold
mapStatus(automated) == IF automated = s_true THEN k_automated ELSE s_manual

\* the own properties of the priorityMap object literal
PriorityKeys == {s_Blocker, s_Critical, s_Major, s_Minor, s_Trivial,
                 s_EmojiHigh, s_EmojiMedium, s_EmojiLow}

priorityMap(key) ==
    CASE key \in {s_Blocker, s_Critical, s_EmojiHigh} -> s_high
      [] key \in {s_Major, s_Minor, s_EmojiMedium} -> s_normal
      [] key \in {s_Trivial, s_EmojiLow} -> s_low

\* the properties an object literal inherits from Object.prototype
InheritedKeys ==
    {s_constructor, s_proto,
     <<"t", "o", "S", "t", "r", "i", "n", "g">>,
     <<"v", "a", "l", "u", "e", "O", "f">>,
     <<"h", "a", "s", "O", "w", "n", "P", "r", "o", "p", "e", "r", "t", "y">>,
     <<"i", "s", "P", "r", "o", "t", "o", "t", "y", "p", "e", "O", "f">>,
     <<"p", "r", "o", "p", "e", "r", "t", "y", "I", "s", "E", "n", "u", "m", "e", "r", "a", "b", "l", "e">>,
     <<"t", "o", "L", "o", "c", "a", "l", "e", "S", "t", "r", "i", "n", "g">>,
     <<"_", "_", "d", "e", "f", "i", "n", "e", "G", "e", "t", "t", "e", "r", "_", "_">>,
     <<"_", "_", "d", "e", "f", "i", "n", "e", "S", "e", "t", "t", "e", "r", "_", "_">>,
     <<"_", "_", "l", "o", "o", "k", "u", "p", "G", "e", "t", "t", "e", "r", "_", "_">>,
     <<"_", "_", "l", "o", "o", "k", "u", "p", "S", "e", "t", "t", "e", "r", "_", "_">>}

\* the function or object Object.prototype holds under the key: not a string
InheritedValue(key) == <<"Object.prototype">> \o key

\* priorityMap[priority]: an own property, else one found on the prototype
\* chain, else undefined
PriorityLookup(priority) ==
    IF priority \in PriorityKeys THEN priorityMap(priority)
    ELSE IF priority \in InheritedKeys THEN InheritedValue(priority)
    ELSE Undefined

\* priorityMap[priority] || 'normal': every inherited value is truthy
mapPriority(priority) ==
    IF PriorityLookup(priority) # Undefined THEN PriorityLookup(priority)
    ELSE s_normal

-----------------------------------------------------------------------------
(* buildFolderHierarchy, lines 208-256 *)

pathOrder == <<k_Epic, k_Feature, k_Story, k_SubStory>>

folderMapping(field) ==
    CASE field = k_Epic -> k_Folder \o <<"1">>
      [] field = k_Feature -> k_Folder \o <<"2">>
      [] field = k_Story -> k_Folder \o <<"3">>
      [] field = k_SubStory -> k_Folder \o <<"4">>

\* what one call of the pathOrder.forEach callback pushes
LevelParts(rec, field) ==
    IF NonBlank(rec, folderMapping(field))
    THEN <<Trim(Get(rec, folderMapping(field)))>>
    ELSE IF NonBlank(rec, field)
         THEN LET firstValue == Trim(Split(Get(rec, field), ",")[1])
              IN  IF firstValue # <<>> THEN <<firstValue>> ELSE <<>>
         ELSE <<>>

HierarchyParts(rec) ==
    LevelParts(rec, pathOrder[1]) \o LevelParts(rec, pathOrder[2])
        \o LevelParts(rec, pathOrder[3]) \o LevelParts(rec, pathOrder[4])

\* what one iteration of the loop over Folder5..Folder8 pushes
ExtraFolderPart(rec, digit) ==
    IF NonBlank(rec, k_Folder \o <<digit>>)
    THEN <<Trim(Get(rec, k_Folder \o <<digit>>))>> ELSE <<>>

ExtraFolderParts(rec) ==
    ExtraFolderPart(rec, "5") \o ExtraFolderPart(rec, "6")
        \o ExtraFolderPart(rec, "7") \o ExtraFolderPart(rec, "8")

FallbackFields == <<k_Suite, k_Folder, k_TestSuite, k_TestSuitePath>>

\* what one call of the fallback forEach callback pushes
FallbackPart(rec, field) ==
    IF NonBlank(rec, field) THEN <<Trim(Get(rec, field))>> ELSE <<>>

FallbackParts(rec) ==
    FallbackPart(rec, FallbackFields[1]) \o FallbackPart(rec, FallbackFields[2])
        \o FallbackPart(rec, FallbackFields[3]) \o FallbackPart(rec, FallbackFields[4])

\* folderParts when the function reaches its return statement
folderParts(rec) ==
    IF HierarchyParts(rec) \o ExtraFolderParts(rec) = <<>>
    THEN FallbackParts(rec)
    ELSE HierarchyParts(rec) \o ExtraFolderParts(rec)

\* the parts left as they are: no "/" replaced
EscapedPartsNone(parts) == parts

\* folderParts.map(part => part.replace(/\//g, '|'))
EscapedParts(parts) == [i \in 1..Len(parts) |-> ReplaceChar(parts[i], "/", "|")]

buildFolderHierarchy(rec) == Join(EscapedParts(folderParts(rec)), <<"/">>)

-----------------------------------------------------------------------------
(* extractTags, lines 324-344 *)

\* tag.trim().replace(/\s+/g, '_')
TagOf(s) == CollapseWhiteSpace(Trim(s))

\* the tags pushed for the tag column
SplitTags(rec) ==
    IF NonBlank(rec, k_tag)
    THEN LET pieces == Split(Trim(Get(rec, k_tag)), ",")
         IN  [i \in 1..Len(pieces) |-> TagOf(pieces[i])]
    ELSE <<>>

\* if (record[field]) tags.push(record[field].trim().replace(/\s+/g, '_'))
MetadataTag(rec, field) ==
    IF Truthy(Get(rec, field)) THEN <<TagOf(Get(rec, field))>> ELSE <<>>

\* the tags array when the function reaches its return statement
tagsArray(rec) ==
    SplitTags(rec) \o MetadataTag(rec, k_SubStory) \o MetadataTag(rec, k_TestType)
        \o MetadataTag(rec, k_AutomationType)

extractTags(rec) == Join(tagsArray(rec), <<",">>)

-----------------------------------------------------------------------------
(* extractJiraIssues, lines 346-374 *)

\* the number of leading characters of s that [A-Z] matches
LeadingUpper(s) == LeadingIn(s, UpperCase)

\* the length of the match of /([A-Z]+-\d+)/ at the start of s, 0 when none
JiraMatchLen(s) ==
    LET u == LeadingUpper(s) IN
    IF u > 0 /\ u + 1 <= Len(s) /\ s[u + 1] = "-"
    THEN LET d == LeadingDigits(From(s, u + 2))
         IN  IF d > 0 THEN u + 1 + d ELSE 0
    ELSE 0

\* value.match(jiraPattern) with the g flag: every match, left to right
\* (the empty array stands for the null of no match: both push nothing)
RECURSIVE MatchJira(_)
MatchJira(s) ==
    IF \A i \in 1..Len(s) : JiraMatchLen(From(s, i)) = 0 THEN <<>>
    ELSE LET first == CHOOSE i \in 1..Len(s) :
                          /\ JiraMatchLen(From(s, i)) > 0
                          /\ \A k \in 1..(i - 1) : JiraMatchLen(From(s, k)) = 0
             len == JiraMatchLen(From(s, first))
         IN  <<SubSeq(s, first, first + len - 1)>> \o MatchJira(From(s, first + len))

\* the matches pushed by the loop over Object.entries(record)
RECURSIVE JiraColumnMatches(_)
JiraColumnMatches(rec) ==
    IF rec = <<>> THEN <<>>
    ELSE (IF StartsWith(ToLowerCase(rec[1][1]), s_jira)
             /\ Truthy(rec[1][2]) /\ Trim(rec[1][2]) # <<>>
          THEN MatchJira(rec[1][2]) ELSE <<>>)
         \o JiraColumnMatches(Tail(rec))

commonFields == <<k_link, k_References, k_description, k_expected_result>>

\* the matches pushed by one iteration of the loop over commonFields
CommonFieldMatches(rec, field) ==
    IF NonBlank(rec, field) THEN MatchJira(Get(rec, field)) ELSE <<>>

\* the jiraIssues array after both loops
jiraIssues(rec) ==
    JiraColumnMatches(rec)
        \o CommonFieldMatches(rec, commonFields[1]) \o CommonFieldMatches(rec, commonFields[2])
        \o CommonFieldMatches(rec, commonFields[3]) \o CommonFieldMatches(rec, commonFields[4])

\* the array spread without the Set: duplicates kept
UniqueNone(a, seen) == a

\* [...new Set(a)]: the elements of a in the order of their first occurrence
RECURSIVE Unique(_, _)
Unique(a, seen) ==
    IF a = <<>> THEN <<>>
    ELSE IF Head(a) \in seen THEN Unique(Tail(a), seen)
    ELSE <<Head(a)>> \o Unique(Tail(a), seen \cup {Head(a)})

extractJiraIssues(rec) == Join(Unique(jiraIssues(rec), {}), <<",", " ">>)

-----------------------------------------------------------------------------
(* extractLabels, lines 258-322 *)

extractedColumns ==
    <<k_allure_id, k_name, k_scenario, k_precondition, k_tag, k_Owner, k_Priority,
      k_link, k_Suite, k_automated, k_Epic, k_Feature, k_Story, k_SubStory>>

MaxLabelLength == 100

\* the test without its check for a double quote
SkippedValueNoQuote(cleanValue) ==
    Includes(cleanValue, "\n") \/ Len(cleanValue) > MaxLabelLength

\* cleanValue.includes('\n') || cleanValue.includes('"') || cleanValue.length > 100
SkippedValue(cleanValue) ==
    Includes(cleanValue, "\n") \/ Includes(cleanValue, "\"")
        \/ Len(cleanValue) > MaxLabelLength

\* `${key}:${value}`
Label(key, value) == key \o <<":">> \o value

\* what one iteration of the loop over Object.entries(record) pushes
EntryLabels(key, value) ==
    IF ~Truthy(value) \/ Trim(value) = <<>> THEN <<>>
    ELSE IF ArrayIncludes(extractedColumns, key) THEN <<>>
    ELSE IF StartsWith(ToLowerCase(key), s_jira) THEN <<>>
    ELSE IF StartsWith(ToLowerCase(key), s_folder) THEN <<>>
    ELSE IF SkippedValue(Trim(value)) THEN <<>>
    ELSE <<Label(key, Trim(value))>>

\* .map(v => v.trim()).filter(v => v)
RECURSIVE TrimmedNonEmpty(_)
TrimmedNonEmpty(pieces) ==
    IF pieces = <<>> THEN <<>>
    ELSE (IF Trim(Head(pieces)) # <<>> THEN <<Trim(Head(pieces))>> ELSE <<>>)
         \o TrimmedNonEmpty(Tail(pieces))

\* what one call of the Epic/Feature/Story/SubStory forEach callback pushes
HierarchyLabels(rec, field) ==
    IF NonBlank(rec, field)
    THEN LET values == TrimmedNonEmpty(Split(Get(rec, field), ","))
         IN  [i \in 1..Len(values) |-> Label(field, values[i])]
    ELSE <<>>

AllHierarchyLabels(rec) ==
    HierarchyLabels(rec, k_Epic) \o HierarchyLabels(rec, k_Feature)
        \o HierarchyLabels(rec, k_Story) \o HierarchyLabels(rec, k_SubStory)

importantFields == <<k_status>>

\* what one iteration of the loop over importantFields pushes
ImportantLabels(rec, labelsArr, field) ==
    IF NonBlank(rec, field)
       /\ ~\E i \in 1..Len(labelsArr) : StartsWith(labelsArr[i], field \o <<":">>)
    THEN <<Label(field, Trim(Get(rec, field)))>>
    ELSE <<>>

\* the labels array after the loop over Object.entries(record)
RECURSIVE AllEntryLabels(_)
AllEntryLabels(rec) ==
    IF rec = <<>> THEN <<>>
    ELSE EntryLabels(rec[1][1], rec[1][2]) \o AllEntryLabels(Tail(rec))

\* the labels array when the function reaches its return statement
labelsArray(rec) ==
    LET afterHierarchy == AllEntryLabels(rec) \o AllHierarchyLabels(rec)
    IN  afterHierarchy \o ImportantLabels(rec, afterHierarchy, importantFields[1])

extractLabels(rec) == Join(labelsArray(rec), <<",", " ">>)

-----------------------------------------------------------------------------
(* the forEach callback of convertTestCases, lines 52-107 *)

\* record[a] || record[b] || ''
FirstTruthy(rec, a, b) ==
    IF Truthy(Get(rec, a)) THEN Get(rec, a)
    ELSE IF Truthy(Get(rec, b)) THEN Get(rec, b)
    ELSE <<>>

descriptionParts(rec) ==
    (IF NonBlank(rec, k_precondition)
     THEN <<s_PreconditionsHeading \o cleanHtml(Trim(Get(rec, k_precondition)))>>
     ELSE <<>>)
    \o (IF NonBlank(rec, k_scenario) /\ parseScenario(Get(rec, k_scenario)) # <<>>
        THEN <<s_StepsHeading \o Join(parseScenario(Get(rec, k_scenario)), <<"\n">>)>>
        ELSE <<>>)
    \o (IF NonBlank(rec, k_expected_result)
        THEN <<s_ExpectedHeading \o cleanHtml(Trim(Get(rec, k_expected_result)))>>
        ELSE <<>>)

\* the testCase object the callback pushes
testCase(rec) ==
    [ID          |-> IF Truthy(Get(rec, k_allure_id))
                     THEN formatAllureId(Get(rec, k_allure_id)) ELSE <<>>,
     Title       |-> FirstTruthy(rec, k_name, k_name),
     Folder      |-> buildFolderHierarchy(rec),
     Emoji       |-> <<>>,
     Priority    |-> mapPriority(IF Truthy(Get(rec, k_Priority))
                                 THEN Get(rec, k_Priority) ELSE Get(rec, k_Priority)),
     Tags        |-> extractTags(rec),
     Owner       |-> FirstTruthy(rec, k_Owner, k_CreatedBy),
     Status      |-> mapStatus(Get(rec, k_automated)),
     Description |-> Join(descriptionParts(rec), <<"\n", "\n">>),
     Examples    |-> <<>>,
     Labels      |-> extractLabels(rec),
     Issues      |-> extractJiraIssues(rec)]

requiredColumns == <<k_allure_id, k_name, k_scenario>>

\* requiredColumns.filter(col => !inputColumns.includes(col))
RECURSIVE MissingFrom(_, _)
MissingFrom(required, inputColumns) ==
    IF required = <<>> THEN <<>>
    ELSE (IF ArrayIncludes(inputColumns, Head(required)) THEN <<>> ELSE <<Head(required)>>)
         \o MissingFrom(Tail(required), inputColumns)

\* the filter that keeps nothing: no column is ever reported missing
missingColumnsNone(inputColumns) == <<>>

missingColumns(inputColumns) == MissingFrom(requiredColumns, inputColumns)

\* the columns option of stringify
outputColumns ==
    <<"ID", "Title", "Folder", "Emoji", "Priority", "Tags", "Owner", "Status",
      "Description", "Examples", "Labels", "Issues">>

\* stringify(finalData, {header: true, columns}): the header row and one row
\* of twelve cells, in the order of the columns, for each test case
stringify(finalData) ==
    [header |-> outputColumns,
     rows   |-> [i \in 1..Len(finalData) |->
                    [c \in 1..Len(outputColumns) |-> finalData[i][outputColumns[c]]]]]

-----------------------------------------------------------------------------
(* The run: the top level of convert.js and convertTestCases, lines 7-123 *)
(* and 398-402.                                                           *)

extractorVars == <<record, result>>
scenarioVars == <<scenario, lines, lineNo, currentStep, steps>>
runVars == <<inputFile, records, recNo, transformedData, outputWrites, exitCode, thrownAt>>
labelVars == <<labels, entryNo>>

\* the most records an input table holds
MaxRecords == 2

InputPath == <<"a", ".", "c", "s", "v">>

\* the Priority cells of the input tables (Undefined: the row has no such cell)
PrioritySamples ==
    PriorityKeys \cup {Undefined, <<>>, <<"b", "l", "o", "c", "k", "e", "r">>,
                       <<"B", "l", "o", "c", "k", "e", "r", " ">>,
                       s_constructor, s_proto}

SampleCell(column) ==
    CASE column = k_allure_id -> <<"9", "3", "3", "5", "8">>
      [] column = k_name -> <<"L", "o", "g", "i", "n">>
      [] column = k_scenario ->
            <<"[", "s", "t", "e", "p", " ", "1", "]", " ", "O", "p", "e", "n", "\n",
              "[", "s", "t", "e", "p", " ", "1", ".", "1", "]", " ", "O", "K">>

\* a row of a table whose header holds the required columns numbered in
\* present, with the Priority cell priority
RunRecord(present, priority) ==
    (IF 1 \in present THEN <<<<requiredColumns[1], SampleCell(requiredColumns[1])>>>> ELSE <<>>)
    \o (IF 2 \in present THEN <<<<requiredColumns[2], SampleCell(requiredColumns[2])>>>> ELSE <<>>)
    \o (IF 3 \in present THEN <<<<requiredColumns[3], SampleCell(requiredColumns[3])>>>> ELSE <<>>)
    \o (IF priority # Undefined THEN <<<<k_Priority, priority>>>> ELSE <<>>)

\* what csv.parse may return: up to MaxRecords rows under one header
ParsedInputs ==
    UNION {UNION {[1..n -> {RunRecord(present, p) : p \in PrioritySamples}] :
                     n \in 0..MaxRecords} :
              present \in SUBSET (1..Len(requiredColumns))}

InitRun ==
    /\ pc = "main"
    /\ inputFile \in {Undefined, InputPath}
    /\ records = <<>>
    /\ recNo = 0
    /\ transformedData = <<>>
    /\ outputWrites = <<>>
    /\ exitCode = -1
    /\ thrownAt = ""
    /\ record = <<>>
    /\ result = Undefined
    /\ scenario = <<>>
    /\ lines = <<>>
    /\ lineNo = 0
    /\ currentStep = Undefined
    /\ steps = <<>>
    /\ labels = <<>>
    /\ entryNo = 0

\* lines 9-13: no input file given
Usage ==
    /\ pc = "main"
    /\ ~Truthy(inputFile)
    /\ exitCode' = 1
    /\ pc' = "exit"
    /\ UNCHANGED <<inputFile, records, recNo, transformedData, outputWrites, thrownAt>>
    /\ UNCHANGED <<extractorVars, scenarioVars, labelVars>>

\* lines 24-33: the file is read and parsed
Parse ==
    /\ pc = "main"
    /\ Truthy(inputFile)
    /\ \E parsed \in ParsedInputs : records' = parsed
    /\ pc' = "validate"
    /\ UNCHANGED <<inputFile, recNo, transformedData, outputWrites, exitCode, thrownAt>>
    /\ UNCHANGED <<extractorVars, scenarioVars, labelVars>>

\* lines 24-33 and 400-402: readFileSync or csv.parse throws
ParseThrows ==
    /\ pc = "main"
    /\ Truthy(inputFile)
    /\ thrownAt' = "parse"
    /\ pc' = "caught"
    /\ UNCHANGED <<inputFile, records, recNo, transformedData, outputWrites, exitCode>>
    /\ UNCHANGED <<extractorVars, scenarioVars, labelVars>>

\* lines 40-47: Object.keys(records[0]) throws a TypeError when records[0]
\* is undefined; a missing required column ends the process
Validate ==
    /\ pc = "validate"
    /\ \/ /\ records = <<>>
          /\ thrownAt' = "validate"
          /\ pc' = "caught"
          /\ UNCHANGED exitCode
       \/ /\ records # <<>>
          /\ missingColumns(Keys(records[1])) # <<>>
          /\ exitCode' = 1
          /\ pc' = "exit"
          /\ UNCHANGED thrownAt
       \/ /\ records # <<>>
          /\ missingColumns(Keys(records[1])) = <<>>
          /\ pc' = "forEach"
          /\ UNCHANGED <<exitCode, thrownAt>>
    /\ UNCHANGED <<inputFile, records, recNo, transformedData, outputWrites>>
    /\ UNCHANGED <<extractorVars, scenarioVars, labelVars>>

\* lines 52-107: one call of the forEach callback
Transform ==
    /\ pc = "forEach"
    /\ recNo < Len(records)
    /\ transformedData' = Append(transformedData, testCase(records[recNo + 1]))
    /\ recNo' = recNo + 1
    /\ UNCHANGED <<pc, inputFile, records, outputWrites, exitCode, thrownAt>>
    /\ UNCHANGED <<extractorVars, scenarioVars, labelVars>>

\* an exception in the callback (console.log on a closed stream) leaves
\* forEach and convertTestCases for the catch of lines 400-402
TransformThrows ==
    /\ pc = "forEach"
    /\ recNo < Len(records)
    /\ thrownAt' = "forEach"
    /\ pc' = "caught"
    /\ UNCHANGED <<inputFile, records, recNo, transformedData, outputWrites, exitCode>>
    /\ UNCHANGED <<extractorVars, scenarioVars, labelVars>>

\* lines 110-122: stringify and writeFileSync
WriteOutput ==
    /\ pc = "forEach"
    /\ recNo = Len(records)
    /\ outputWrites' = Append(outputWrites, stringify(transformedData))
    /\ pc' = "done"
    /\ UNCHANGED <<inputFile, records, recNo, transformedData, exitCode, thrownAt>>
    /\ UNCHANGED <<extractorVars, scenarioVars, labelVars>>

\* lines 113-121 and 400-402: stringify or writeFileSync throws
WriteThrows ==
    /\ pc = "forEach"
    /\ recNo = Len(records)
    /\ thrownAt' = "write"
    /\ pc' = "caught"
    /\ UNCHANGED <<inputFile, records, recNo, transformedData, outputWrites, exitCode>>
    /\ UNCHANGED <<extractorVars, scenarioVars, labelVars>>

NextRun ==
    \/ Usage
    \/ Parse
    \/ ParseThrows
    \/ Validate
    \/ Transform
    \/ TransformThrows
    \/ WriteOutput
    \/ WriteThrows

Spec == InitRun /\ [][NextRun]_vars

-----------------------------------------------------------------------------
(* Claims about the run *)

\* C3: every transformed record has Priority high, normal or low, and a
\* Priority cell that is not one of the eight table keys (or is missing)
\* gives normal, the names of inherited properties included.
C3_PriorityAlwaysInVocabulary ==
    \A i \in 1..Len(transformedData) :
        /\ transformedData[i].Priority \in {s_high, s_normal, s_low}
        /\ Get(records[i], k_Priority) \notin PriorityKeys
               => transformedData[i].Priority = s_normal

Terminated == pc \in {"done", "exit", "caught"}

\* C4: a run whose parsed table has no data rows does not fail before the
\* write step, and when the write succeeds the file holds the header row and
\* no data row.
C4_EmptyTableWritesHeaderOnly ==
    (Terminated /\ Truthy(inputFile) /\ thrownAt # "parse" /\ records = <<>>)
        => /\ thrownAt \in {"", "write"}
           /\ thrownAt = "" =>
                  outputWrites = <<[header |-> outputColumns, rows |-> <<>>]>>

\* some required column is no key of the first record
RequiredColumnMissing ==
    /\ records # <<>>
    /\ \E c \in {k_allure_id, k_name, k_scenario} :
           \A j \in 1..Len(records[1]) : records[1][j][1] # c

\* C5: the output is written at most once and only after every record has
\* been transformed; with a required column missing the run aborts before any
\* record is transformed and nothing is written; a failure while reading,
\* validating or transforming leaves nothing written.
C5_WriteOnceAfterAllRecords ==
    /\ Len(outputWrites) <= 1
    /\ outputWrites # <<>> =>
           /\ recNo = Len(records)
           /\ Len(transformedData) = Len(records)
           /\ Len(outputWrites[1].rows) = Len(records)
           /\ thrownAt = ""
    /\ (RequiredColumnMissing /\ pc # "validate") =>
           /\ pc = "exit"
           /\ exitCode = 1
           /\ recNo = 0
           /\ transformedData = <<>>
           /\ outputWrites = <<>>
    /\ thrownAt \in {"parse", "validate", "forEach"} => outputWrites = <<>>

\* a run that transformed two records and wrote them
C5_Witness ==
    /\ pc = "done"
    /\ Len(records) = 2
    /\ Len(outputWrites) = 1
    /\ Len(outputWrites[1].rows) = 2

-----------------------------------------------------------------------------
(* parseScenario as the loop it is: one action for each iteration *)

\* the most lines a scenario text holds
MaxLines == 3

\* the lines the scenario texts are made of
LineSamples ==
    {<<"[", "s", "t", "e", "p", " ", "1", "]", " ", "a">>,
     <<" ", "[", "s", "t", "e", "p", " ", "1", "2", "]", "b", " ">>,
     <<"[", "s", "t", "e", "p", " ", "2", "]">>,
     <<"\t", "[", "s", "t", "e", "p", " ", "1", ".", "1", "]", " ", "e">>,
     <<"-", " ", "s">>,
     <<" ", "-", " ", " ", "<", "p", ">", "t", "<", "/", "p", ">">>,
     <<"-">>,
     <<"c", "<", "b", "r", ">", "-", "d">>,
     <<"[", "x">>,
     <<" ">>}

\* the scenario texts: one to MaxLines lines joined by newlines
ScenarioInputs ==
    UNION {{Join(ls, <<"\n">>) : ls \in [1..n -> LineSamples]} : n \in 1..MaxLines}

InitScenario ==
    /\ pc = "call"
    /\ scenario \in ScenarioInputs
    /\ lines = <<>>
    /\ lineNo = 0
    /\ currentStep = Undefined
    /\ steps = <<>>
    /\ result = Undefined
    /\ record = <<>>
    /\ inputFile = Undefined
    /\ records = <<>>
    /\ recNo = 0
    /\ transformedData = <<>>
    /\ outputWrites = <<>>
    /\ exitCode = -1
    /\ thrownAt = ""
    /\ labels = <<>>
    /\ entryNo = 0

\* lines 155-157
ScenarioEnter ==
    /\ pc = "call"
    /\ steps' = <<>>
    /\ lines' = Split(scenario, "\n")
    /\ currentStep' = Undefined
    /\ lineNo' = 0
    /\ pc' = "loop"
    /\ UNCHANGED <<scenario, extractorVars, runVars, labelVars>>

\* lines 159-198: one iteration of the loop
ScenarioLine ==
    /\ pc = "loop"
    /\ lineNo < Len(lines)
    /\ currentStep' = LineCurrentStep(currentStep, lines[lineNo + 1])
    /\ steps' = LineSteps(currentStep, steps, lines[lineNo + 1])
    /\ lineNo' = lineNo + 1
    /\ UNCHANGED <<pc, scenario, lines, extractorVars, runVars, labelVars>>

\* lines 200-205: the last step is pushed and steps returned
ScenarioReturn ==
    /\ pc = "loop"
    /\ lineNo = Len(lines)
    /\ steps' = IF Truthy(currentStep) THEN Append(steps, currentStep) ELSE steps
    /\ result' = steps'
    /\ pc' = "done"
    /\ UNCHANGED <<record, scenario, lines, lineNo, currentStep, runVars, labelVars>>

NextScenario ==
    \/ ScenarioEnter
    \/ ScenarioLine
    \/ ScenarioReturn

SpecScenario == InitScenario /\ [][NextScenario]_vars

-----------------------------------------------------------------------------
(* Claims about parseScenario *)

\* the line the loop is about to read, trimmed
NextLine == Trim(lines[lineNo + 1])

ReadingLine == pc = "loop" /\ lineNo < Len(lines)

\* C8: a line that starts with "-" read while a step is open appends to the
\* open step the line without its leading "-" and the white space after it;
\* read while no step is open it changes nothing.
C8_SubItemStrippedOfMarker ==
    [][(ReadingLine /\ StartsWith(NextLine, <<"-">>)) =>
          /\ steps' = steps
          /\ IF Truthy(currentStep)
             THEN TrimStart(Tail(NextLine)) # <<>> =>
                      currentStep' = currentStep \o Indent
                                         \o cleanHtml(TrimStart(Tail(NextLine)))
             ELSE currentStep' = currentStep]_vars

IsStepLine(line) == StepMatchLen(Trim(line)) > 0

IsExpectedLine(line) == ExpectedMatchLen(Trim(line)) > 0

IsPlainLine(line) ==
    Trim(line) # <<>> /\ Head(Trim(line)) \notin {"[", "-"}

StepLineNos == {i \in 1..Len(lines) : IsStepLine(lines[i])}

\* some plain line comes before the first [step N] line
HasLeadingEntry ==
    \E i \in 1..Len(lines) :
        IsPlainLine(lines[i]) /\ \A j \in StepLineNos : i < j

LeadingEntries == IF HasLeadingEntry THEN 1 ELSE 0

\* the entries returned: one for each [step N] line, in the order of the
\* lines, after the leading entry if there is one; each begins with "* "
EntriesMatchStepLines ==
    pc = "done" =>
        /\ Len(result) = Cardinality(StepLineNos) + LeadingEntries
        /\ \A k \in 1..Len(result) : StartsWith(result[k], Bullet)
        /\ \A i \in StepLineNos :
               LET k == LeadingEntries + Cardinality({j \in StepLineNos : j <= i})
               IN  StartsWith(result[k], Bullet \o cleanHtml(StepText(Trim(lines[i]))))

\* a [step N.M] line changes nothing while no step is open, and otherwise
\* appends its Expected text to the open step and leaves the pushed ones alone
ExpectedGoesToOpenStep ==
    (ReadingLine /\ IsExpectedLine(lines[lineNo + 1])) =>
        /\ steps' = steps
        /\ IF currentStep = Undefined
           THEN currentStep' = Undefined
           ELSE currentStep' = currentStep \o ExpectedMark
                                   \o cleanHtml(ExpectedText(NextLine))

\* C10: parseScenario returns one entry for each [step N] line, in input
\* order, and one leading entry exactly when a plain line comes before the
\* first [step N] line; every entry begins with "* "; a [step N.M] line is
\* dropped while no step is open and otherwise goes to the open step.
C10_OneEntryPerStepLine ==
    [](EntriesMatchStepLines) /\ [][ExpectedGoesToOpenStep]_vars

\* a leading entry, two [step N] lines and nothing else were returned
C10_Witness ==
    /\ pc = "done"
    /\ Len(lines) = 3
    /\ HasLeadingEntry
    /\ Cardinality(StepLineNos) = 2
    /\ Len(result) = 3

-----------------------------------------------------------------------------
(* The extractors on one record: the inputs and one action for each call *)

\* the record with the cell cells[i] under the column columns[i], for each i
\* in the domain of cells, in the order of columns
RECURSIVE RecordFrom(_, _, _)
RecordFrom(columns, cells, i) ==
    IF i > Len(columns) THEN <<>>
    ELSE (IF i \in DOMAIN cells THEN <<<<columns[i], cells[i]>>>> ELSE <<>>)
         \o RecordFrom(columns, cells, i + 1)

\* the records that hold at most most of the columns, with cells from cells
RecordsOver(columns, cells, most) ==
    UNION {{RecordFrom(columns, f, 1) : f \in [present -> cells]} :
              present \in {p \in SUBSET (1..Len(columns)) : Cardinality(p) <= most}}

\* the record with the columns in the order order gives them
RecordInOrder(columns, order, cells) ==
    [i \in 1..Len(order) |-> <<columns[order[i]], cells[i]>>]

\* the records of at most most columns, the columns in every order
OrderedRecordsOver(columns, cells, most) ==
    UNION {UNION {{RecordInOrder(columns, order, f) : f \in [1..n -> cells]} :
                     order \in {o \in [1..n -> 1..Len(columns)] :
                                   \A i, j \in 1..n : i # j => o[i] # o[j]}} :
              n \in 0..most}

InitExtractor(inputs) ==
    /\ pc = "call"
    /\ record \in inputs
    /\ result = Undefined
    /\ scenario = <<>>
    /\ lines = <<>>
    /\ lineNo = 0
    /\ currentStep = Undefined
    /\ steps = <<>>
    /\ inputFile = Undefined
    /\ records = <<>>
    /\ recNo = 0
    /\ transformedData = <<>>
    /\ outputWrites = <<>>
    /\ exitCode = -1
    /\ thrownAt = ""
    /\ labels = <<>>
    /\ entryNo = 0

\* the most columns a record given to buildFolderHierarchy holds
MaxFolderColumns == 2

FolderColumns ==
    <<k_Epic, k_Feature, k_Story, k_SubStory,
      k_Folder \o <<"1">>, k_Folder \o <<"2">>, k_Folder \o <<"3">>, k_Folder \o <<"4">>,
      k_Folder \o <<"5">>, k_Folder \o <<"6">>, k_Folder \o <<"7">>, k_Folder \o <<"8">>,
      k_Suite, k_Folder, k_TestSuite, k_TestSuitePath>>

FolderCells ==
    {<<" ">>, <<"a">>, <<" ", "b", "/", "c", " ">>, <<",", "d">>, <<"e", ",", " ", "f">>}

InitFolder == InitExtractor(RecordsOver(FolderColumns, FolderCells, MaxFolderColumns))

\* line 85: const folder = buildFolderHierarchy(record)
FolderCall ==
    /\ pc = "call"
    /\ result' = buildFolderHierarchy(record)
    /\ pc' = "done"
    /\ UNCHANGED <<record, scenarioVars, runVars, labelVars>>

NextFolder == FolderCall

SpecFolder == InitFolder /\ [][NextFolder]_vars

TagColumns == <<k_tag, k_SubStory, k_TestType, k_AutomationType>>

TagCells ==
    {<<>>, <<" ">>, <<"x", " ", " ", "y">>, <<" ", "a", ",", " ", "b", " ", "c", ",">>}

InitTags == InitExtractor(RecordsOver(TagColumns, TagCells, Len(TagColumns)))

\* line 81: const tags = extractTags(record)
TagsCall ==
    /\ pc = "call"
    /\ result' = extractTags(record)
    /\ pc' = "done"
    /\ UNCHANGED <<record, scenarioVars, runVars, labelVars>>

NextTags == TagsCall

SpecTags == InitTags /\ [][NextTags]_vars

\* the most columns a record given to extractJiraIssues holds
MaxIssueColumns == 2

IssueColumns ==
    <<<<"j", "i", "r", "a", "-", "1">>, <<"J", "I", "R", "A", "-", "B">>,
      k_link, k_References, k_description, k_expected_result>>

IssueCells ==
    {<<" ">>, <<"A", "B", "C", "-", "1">>,
     <<"X", "Y", "-", "2", " ", "A", "B", "C", "-", "1">>,
     <<"A", "B", "C", "-", "1", "2", ",", "X", "Y", "-", "2">>,
     <<"a", "b", "c", "-", "1", " ", "A", "-", "B", "-", "3">>}

InitIssues ==
    InitExtractor(OrderedRecordsOver(IssueColumns, IssueCells, MaxIssueColumns))

\* line 86: const issues = extractJiraIssues(record)
IssuesCall ==
    /\ pc = "call"
    /\ result' = extractJiraIssues(record)
    /\ pc' = "done"
    /\ UNCHANGED <<record, scenarioVars, runVars, labelVars>>

NextIssues == IssuesCall

SpecIssues == InitIssues /\ [][NextIssues]_vars

-----------------------------------------------------------------------------
(* Claims about buildFolderHierarchy *)

NonBlankFallbackFields ==
    {i \in 1..Len(FallbackFields) : NonBlank(record, FallbackFields[i])}

\* C1: when the hierarchy levels and Folder5..Folder8 give no segment, the
\* Folder is the first non-blank value among Suite, Folder, Test Suite and
\* Test Suite Path alone: with two or more of them non-blank it still is one
\* segment, with no "/" in it.
C1_FallbackIsOneSegment ==
    (/\ pc = "done"
     /\ HierarchyParts(record) \o ExtraFolderParts(record) = <<>>
     /\ Cardinality(NonBlankFallbackFields) >= 2)
        => LET first == CHOOSE i \in NonBlankFallbackFields :
                            \A j \in NonBlankFallbackFields : i <= j
           IN  /\ ~Includes(result, "/")
               /\ result = ReplaceChar(Trim(Get(record, FallbackFields[first])), "/", "|")

\* the text of s before its first comma
FirstCommaValue(s) ==
    IF \E i \in 1..Len(s) : s[i] = ","
    THEN SubSeq(s, 1, (CHOOSE i \in 1..Len(s) : s[i] = "," /\ \A k \in 1..(i - 1) : s[k] # ",") - 1)
    ELSE s

LevelFolder(k) == k_Folder \o <<<<"1", "2", "3", "4">>[k]>>

LevelField(k) == <<k_Epic, k_Feature, k_Story, k_SubStory>>[k]

\* the segment of level k as the claim states it: FolderK when non-blank,
\* otherwise the first comma-separated value of the named field when that
\* field is non-blank
StatedLevelSegment(k) ==
    IF NonBlank(record, LevelFolder(k)) THEN <<Trim(Get(record, LevelFolder(k)))>>
    ELSE IF NonBlank(record, LevelField(k))
         THEN <<Trim(FirstCommaValue(Get(record, LevelField(k))))>>
         ELSE <<>>

\* the same, with no segment when that first value is empty once trimmed
LevelSegment(k) ==
    IF StatedLevelSegment(k) = <<<<>>>> THEN <<>> ELSE StatedLevelSegment(k)

ExtraSegment(digit) ==
    IF NonBlank(record, k_Folder \o <<digit>>)
    THEN <<Trim(Get(record, k_Folder \o <<digit>>))>> ELSE <<>>

ExtraSegments ==
    ExtraSegment("5") \o ExtraSegment("6") \o ExtraSegment("7") \o ExtraSegment("8")

\* the segments each with "|" for "/", joined by "/"
FolderOf(segments) ==
    Join([i \in 1..Len(segments) |->
             [j \in 1..Len(segments[i]) |->
                 IF segments[i][j] = "/" THEN "|" ELSE segments[i][j]]], <<"/">>)

StatedSegments ==
    StatedLevelSegment(1) \o StatedLevelSegment(2) \o StatedLevelSegment(3)
        \o StatedLevelSegment(4) \o ExtraSegments

Segments ==
    LevelSegment(1) \o LevelSegment(2) \o LevelSegment(3) \o LevelSegment(4)
        \o ExtraSegments

\* C7 as stated: a level whose FolderK is blank and whose named field is
\* non-blank gives the trimmed first comma-separated value of that field as
\* its segment, whatever that value is.
C7_AsStated ==
    (pc = "done" /\ StatedSegments # <<>>) => result = FolderOf(StatedSegments)

\* C7: level k gives the trimmed FolderK when FolderK is non-blank, otherwise
\* the trimmed first comma-separated value of the named field when the field
\* is non-blank and that value is not empty, otherwise nothing; the segments
\* come in level order, then the non-blank Folder5..Folder8, each with "|"
\* for "/", joined by "/".
C7_FolderFromLevels ==
    (pc = "done" /\ Segments # <<>>) => result = FolderOf(Segments)

\* Epic and Folder2 without Feature, a "/" inside the Epic value
C7_Witness ==
    /\ pc = "done"
    /\ record = <<<<k_Epic, <<" ", "b", "/", "c", " ">>>>, <<k_Folder \o <<"2">>, <<"a">>>>>>
    /\ result = <<"b", "|", "c", "/", "a">>

-----------------------------------------------------------------------------
(* Claims about extractTags *)

\* the tag the claim has the column give: none for a column that is absent,
\* empty or all white space
StatedMetadataTag(field) ==
    IF Get(record, field) = Undefined \/ Trim(Get(record, field)) = <<>> THEN <<>>
    ELSE <<CollapseWhiteSpace(Trim(Get(record, field)))>>

\* C9: SubStory, Test Type and Automation Type each give a tag only when the
\* column is present and non-blank, so Tags holds the tags of the tag column
\* and then those of the non-blank ones among the three.
C9_BlankMetadataGivesNoTag ==
    pc = "done" =>
        result = Join(SplitTags(record) \o StatedMetadataTag(k_SubStory)
                          \o StatedMetadataTag(k_TestType)
                          \o StatedMetadataTag(k_AutomationType), <<",">>)

-----------------------------------------------------------------------------
(* Claims about extractJiraIssues *)

\* the tokens of the Issues string
IssueTokens ==
    IF result = <<>> THEN <<>>
    ELSE [i \in 1..Len(Split(result, ",")) |-> TrimStart(Split(result, ",")[i])]

IsJiraColumn(key) == StartsWith(ToLowerCase(key), s_jira)

\* the cells scanned, in the order stated: the jira-* columns in record
\* order, then link, References, description, expected_result
RECURSIVE JiraCells(_)
JiraCells(rec) ==
    IF rec = <<>> THEN <<>>
    ELSE (IF IsJiraColumn(rec[1][1]) THEN <<rec[1][2]>> ELSE <<>>) \o JiraCells(Tail(rec))

ScannedCells ==
    JiraCells(record)
        \o <<Get(record, k_link), Get(record, k_References),
             Get(record, k_description), Get(record, k_expected_result)>>

\* every token of the scanned cells, in scan order
RECURSIVE TokensOf(_)
TokensOf(cells) ==
    IF cells = <<>> THEN <<>>
    ELSE (IF Head(cells) = Undefined THEN <<>> ELSE MatchJira(Head(cells)))
         \o TokensOf(Tail(cells))

FirstOccurrence(tokens, token) ==
    CHOOSE i \in 1..Len(tokens) : tokens[i] = token /\ \A k \in 1..(i - 1) : tokens[k] # token

\* C6: Issues repeats no token, holds exactly the tokens found, and lists
\* them in the order of their first occurrence in the scan.
C6_IssuesUniqueInFirstOccurrenceOrder ==
    pc = "done" =>
        LET found == TokensOf(ScannedCells)
            tokens == IssueTokens
        IN  /\ \A i, j \in 1..Len(tokens) : i # j => tokens[i] # tokens[j]
            /\ {tokens[i] : i \in 1..Len(tokens)} = {found[i] : i \in 1..Len(found)}
            /\ \A i, j \in 1..Len(tokens) :
                   i < j => FirstOccurrence(found, tokens[i]) < FirstOccurrence(found, tokens[j])

\* two jira-* columns that both hold ABC-1 give the Issues ABC-1
C6_Witness ==
    /\ pc = "done"
    /\ record = <<<<IssueColumns[1], <<"A", "B", "C", "-", "1">>>>, <<IssueColumns[2], <<"A", "B", "C", "-", "1">>>>>>
    /\ result = <<"A", "B", "C", "-", "1">>

-----------------------------------------------------------------------------
(* extractLabels as the loops it is *)

\* the most columns a record given to extractLabels holds
MaxLabelColumns == 2

LabelColumns ==
    <<<<"r", "e", "g", "i", "o", "n">>, k_status, k_Epic, k_SubStory, k_name,
      <<"T", "e", "a", "m">>, <<"j", "i", "r", "a", "-", "1">>>>

\* a string of n letters
Letters(n) == [i \in 1..n |-> "y"]

LabelCells ==
    {<<" ">>, <<" ", "E", "U", " ">>, <<"a", "\"", "b", ",", " ", "c">>,
     <<"d", "\n", "e">>, Letters(MaxLabelLength), <<" ">> \o Letters(MaxLabelLength + 1)}

InitLabels == InitExtractor(RecordsOver(LabelColumns, LabelCells, MaxLabelColumns))

\* lines 259-265
LabelsEnter ==
    /\ pc = "call"
    /\ labels' = <<>>
    /\ entryNo' = 0
    /\ pc' = "entries"
    /\ UNCHANGED <<extractorVars, scenarioVars, runVars>>

\* lines 267-296: one iteration of the loop over Object.entries(record)
LabelsEntry ==
    /\ pc = "entries"
    /\ entryNo < Len(record)
    /\ labels' = labels \o EntryLabels(record[entryNo + 1][1], record[entryNo + 1][2])
    /\ entryNo' = entryNo + 1
    /\ UNCHANGED <<pc, extractorVars, scenarioVars, runVars>>

\* lines 298-307: the forEach over Epic, Feature, Story, SubStory
LabelsHierarchy ==
    /\ pc = "entries"
    /\ entryNo = Len(record)
    /\ labels' = labels \o AllHierarchyLabels(record)
    /\ pc' = "important"
    /\ UNCHANGED <<entryNo, extractorVars, scenarioVars, runVars>>

\* lines 309-319: the loop over importantFields
LabelsImportant ==
    /\ pc = "important"
    /\ labels' = labels \o ImportantLabels(record, labels, importantFields[1])
    /\ pc' = "return"
    /\ UNCHANGED <<entryNo, extractorVars, scenarioVars, runVars>>

\* line 321
LabelsReturn ==
    /\ pc = "return"
    /\ result' = Join(labels, <<",", " ">>)
    /\ pc' = "done"
    /\ UNCHANGED <<record, labels, entryNo, scenarioVars, runVars>>

NextLabels ==
    \/ LabelsEnter
    \/ LabelsEntry
    \/ LabelsHierarchy
    \/ LabelsImportant
    \/ LabelsReturn

SpecLabels == InitLabels /\ [][NextLabels]_vars

-----------------------------------------------------------------------------
(* Claims about extractLabels *)

\* the value of a key:value label (no column name of the inputs holds ":")
LabelValue(label) == From(label, IndexFrom(label, ":", 1) + 1)

LabelKey(label) == SubSeq(label, 1, IndexFrom(label, ":", 1) - 1)

\* no newline, no double quote, at most 100 characters
CleanValue(value) ==
    /\ \A i \in 1..Len(value) : value[i] # "\n" /\ value[i] # "\""
    /\ Len(value) <= 100

\* C2 as stated: the value of every entry of Labels, whatever it was built
\* from, has no newline, no double quote and at most 100 characters.
C2_AsStated ==
    \A i \in 1..Len(labels) : CleanValue(LabelValue(labels[i]))

\* the entries of the record visited so far that can give a label: columns
\* that are neither reserved nor jira-* nor folder*, with a non-blank cell
LabelSources ==
    {i \in 1..entryNo :
        /\ record[i][2] # <<>> /\ Trim(record[i][2]) # <<>>
        /\ \A j \in 1..Len(extractedColumns) : extractedColumns[j] # record[i][1]
        /\ ~StartsWith(ToLowerCase(record[i][1]), s_jira)
        /\ ~StartsWith(ToLowerCase(record[i][1]), s_folder)}

\* C2: the value of every entry built from an arbitrary extra column has no
\* newline, no double quote and at most 100 characters, and a column whose
\* value breaks this gives no entry; the entries built from the Epic,
\* Feature, Story and SubStory values and from the additional status field
\* are not held to it.
C2_ExtraColumnLabelsAreClean ==
    /\ pc = "entries" =>
           /\ \A i \in 1..Len(labels) : CleanValue(LabelValue(labels[i]))
           /\ \A i \in LabelSources :
                  (\E k \in 1..Len(labels) :
                       labels[k] = record[i][1] \o <<":">> \o Trim(record[i][2]))
                      <=> CleanValue(Trim(record[i][2]))
    /\ \A i \in 1..Len(labels) :
           CleanValue(LabelValue(labels[i]))
               \/ LabelKey(labels[i]) \in {k_Epic, k_Feature, k_Story, k_SubStory, k_status}

\* the loop has taken the clean value of one extra column and passed over
\* the value with a double quote of another
C2_Witness ==
    /\ pc = "entries"
    /\ entryNo = 2
    /\ record = <<<<LabelColumns[1], <<" ", "E", "U", " ">>>>, <<LabelColumns[6], <<"a", "\"", "b", ",", " ", "c">>>>>>
    /\ labels = <<<<"r", "e", "g", "i", "o", "n", ":", "E", "U">>>>

=============================================================================
